---- MODULE Spec2Model ----
(***************************************************************************)
(* A model of api.go: the widget collection handler (WidgetHandler) that   *)
(* net/http serves under "/widgets/", its in-memory map and the five CRUD  *)
(* operations.                                                             *)
(*                                                                         *)
(* A Go string is a sequence of symbols.  The path prefix "/widgets/" is   *)
(* the three symbols "/", "widgets", "/"; a generated uuid is one symbol.  *)
(*                                                                         *)
(* Spec     requests served one after the other, one action per request.   *)
(* SpecConc requests served by concurrent goroutines, one action per       *)
(*          statement of a handler that touches shared state.              *)
(***************************************************************************)
EXTENDS Integers, Sequences, FiniteSets, TLC

\* ------------------------------------------------------------ bounds

\* How many distinct ids the uuidgen executable can hand out in a run.
NumUuids == 2

\* How many requests are served concurrently under SpecConc.
NumProcs == 3

\* ----------------------------------------------------------- strings

EmptyString == <<>>

Str(sym) == <<sym>>

Whitespace == {" ", "\n"}

Min(S) == CHOOSE x \in S : \A y \in S : x <= y

\* strings.Index: the first position at which old occurs in s, 0 if none.
Index(s, old) ==
  LET hits == {i \in 1..(Len(s) - Len(old) + 1) :
                  SubSeq(s, i, i + Len(old) - 1) = old}
  IN IF hits = {} THEN 0 ELSE Min(hits)

RECURSIVE Replace(_, _, _, _)
\* strings.Replace(s, old, new, n) for a non-empty old: the first n
\* occurrences of old replaced, every occurrence when n < 0.
Replace(s, old, new, n) ==
  IF n = 0 \/ Index(s, old) = 0
    THEN s
    ELSE LET i == Index(s, old)
         IN SubSeq(s, 1, i - 1) \o new
              \o Replace(SubSeq(s, i + Len(old), Len(s)), old, new, n - 1)

RECURSIVE TrimLeft(_)
TrimLeft(s) ==
  IF s # <<>> /\ Head(s) \in Whitespace THEN TrimLeft(Tail(s)) ELSE s

RECURSIVE TrimRight(_)
TrimRight(s) ==
  IF s # <<>> /\ s[Len(s)] \in Whitespace
    THEN TrimRight(SubSeq(s, 1, Len(s) - 1))
    ELSE s

\* strings.TrimSpace
TrimSpace(s) == TrimRight(TrimLeft(s))

\* ------------------------------------------------------------ widgets

\* type Widget struct
Widget(id, name, description) ==
  [ID |-> id, Name |-> name, Description |-> description]

\* var widget Widget: the zero value
ZeroWidget == Widget(EmptyString, EmptyString, EmptyString)

\* make(map[string]Widget, 0)
NewWidgetHandler == [k \in {} |-> ZeroWidget]

\* m[k] = v
MapAssign(m, k, v) == [q \in DOMAIN m \cup {k} |-> IF q = k THEN v ELSE m[q]]

\* delete(m, k)
MapDelete(m, k) == [q \in DOMAIN m \ {k} |-> m[q]]

\* The ways a range loop can walk the keys of a map.
IterationOrders(m) ==
  {o \in [1..Cardinality(DOMAIN m) -> DOMAIN m] :
      \A i, j \in DOMAIN o : i # j => o[i] # o[j]}

\* --------------------------------------------------------------- JSON

JString(s) == <<"string", s>>

JNumber == <<"number">>

\* A request body as the decoder reads it: valid tells whether a first JSON
\* value can be read at all (an empty or broken text cannot), fields is that
\* value, an object, and junk tells whether other text follows it.
Body(valid, fields, junk) == [valid |-> valid, fields |-> fields, junk |-> junk]

NoFields == [k \in {} |-> JNumber]

BrokenBody == Body(FALSE, NoFields, FALSE)

\* The body is one JSON text.
IsJSON(b) == b.valid /\ ~b.junk

\* The body is one JSON object whose id, name and description, where given,
\* are strings.
WellFormed(b) ==
  /\ IsJSON(b)
  /\ \A k \in DOMAIN b.fields \cap {"id", "name", "description"} :
        b.fields[k][1] = "string"

\* What a struct field tagged key receives from the object.
Field(fields, key) ==
  IF key \in DOMAIN fields /\ fields[key][1] = "string"
    THEN fields[key][2]
    ELSE EmptyString

\* json.NewDecoder(r.Body).Decode(&widget): reads the first JSON value of the
\* body and nothing after it; fails when that value cannot be read or gives a
\* field of Widget a value that is no string.
Decode(b) ==
  IF ~b.valid
    THEN [err |-> TRUE, widget |-> ZeroWidget]
    ELSE [err |-> \E k \in DOMAIN b.fields \cap {"id", "name", "description"} :
                      b.fields[k][1] # "string",
          widget |-> Widget(Field(b.fields, "id"), Field(b.fields, "name"),
                            Field(b.fields, "description"))]

\* ---------------------------------------------------------- responses

StatusOK == 200
StatusCreated == 201
StatusBadRequest == 400
StatusNotFound == 404
StatusMethodNotAllowed == 405
StatusInternalServerError == 500

\* A http.ResponseWriter nothing was written to yet.
NewResponse == [status |-> 0, contentType |-> "", body |-> [none |-> TRUE]]

\* writeJSON: the first WriteHeader decides the status; encoding a payload
\* of strings and integers does not fail.
writeJSON(w, status, payload) ==
  IF w.status = 0
    THEN [status |-> status, contentType |-> "application/json", body |-> payload]
    ELSE w

writeJSONError(w, status, message) == writeJSON(w, status, [error |-> message])

NotLocated == "The requested resource could not be located."

NotAllowed == "Method not allowed for this resource."

DecodeFailed == "decode error"

ExecFailed == "exec error"

\* ------------------------------------------------------------- uuidgen

Uuid(i) == "u" \o ToString(i)

UuidSyms == {Uuid(i) : i \in 1..NumUuids}

\* exec.Command("uuidgen").Output(): the executable fails, or prints an id it
\* has not printed before, and a line feed.
Uuidgen(issued) ==
  {[err |-> TRUE, out |-> EmptyString]}
    \cup {[err |-> FALSE, out |-> <<u, "\n">>] : u \in UuidSyms \ issued}

\* ------------------------------------------------------------ handlers
\* Each handler, run from its first statement to its last with nothing in
\* between: the map h and the response writer w it leaves.

Served(h, w) == [widgets |-> h, w |-> w]

\* list with the slice made at the length of the map and then appended to.
list_Preallocated(h, w, order) ==
  LET all == [i \in 1..Len(order) |-> ZeroWidget] \o [i \in 1..Len(order) |-> h[order[i]]]
      payload == [widgets |-> all, count |-> Len(all)]
  IN Served(h, writeJSON(w, StatusOK, payload))

\* func (h WidgetHandler) list; order is the order the range loop takes.
list(h, w, order) ==
  LET all == [i \in 1..Len(order) |-> h[order[i]]]
      payload == [widgets |-> all, count |-> Len(all)]
  IN Served(h, writeJSON(w, StatusOK, payload))

\* func (h WidgetHandler) get
get(h, w, id) ==
  IF id \notin DOMAIN h
    THEN Served(h, writeJSONError(w, StatusNotFound, NotLocated))
    ELSE Served(h, writeJSON(w, StatusOK, [widget |-> h[id]]))

\* create that keeps the id the client sent when it sent one.
create_KeepsClientId(h, w, body, gen) ==
  LET dec == Decode(body)
      widget == IF dec.widget.ID = EmptyString
                  THEN [dec.widget EXCEPT !.ID = TrimSpace(gen.out)]
                  ELSE dec.widget
  IN IF dec.err
       THEN Served(h, writeJSONError(w, StatusBadRequest, DecodeFailed))
       ELSE IF gen.err
         THEN Served(h, writeJSONError(w, StatusInternalServerError, ExecFailed))
         ELSE Served(MapAssign(h, widget.ID, widget),
                     writeJSON(w, StatusCreated, [widget |-> widget]))

\* create that stores the widget before it gives it the generated id.
create_StoresBeforeId(h, w, body, gen) ==
  LET dec == Decode(body)
      widget == [dec.widget EXCEPT !.ID = TrimSpace(gen.out)]
  IN IF dec.err
       THEN Served(h, writeJSONError(w, StatusBadRequest, DecodeFailed))
       ELSE IF gen.err
         THEN Served(h, writeJSONError(w, StatusInternalServerError, ExecFailed))
         ELSE Served(MapAssign(h, dec.widget.ID, dec.widget),
                     writeJSON(w, StatusCreated, [widget |-> widget]))

\* func (h WidgetHandler) create; gen is what uuidgen answers when it is run.
create(h, w, body, gen) ==
  LET dec == Decode(body)
      widget == [dec.widget EXCEPT !.ID = TrimSpace(gen.out)]
  IN IF dec.err
       THEN Served(h, writeJSONError(w, StatusBadRequest, DecodeFailed))
       ELSE IF gen.err
         THEN Served(h, writeJSONError(w, StatusInternalServerError, ExecFailed))
         ELSE Served(MapAssign(h, widget.ID, widget),
                     writeJSON(w, StatusCreated, [widget |-> widget]))

\* update that decodes the body before it looks the id up.
update_DecodesFirst(h, w, body, id) ==
  LET dec == Decode(body)
  IN IF dec.err
       THEN Served(h, writeJSONError(w, StatusBadRequest, DecodeFailed))
       ELSE IF id \notin DOMAIN h
         THEN Served(h, writeJSONError(w, StatusNotFound, NotLocated))
         ELSE LET widget == [h[id] EXCEPT !.Name = dec.widget.Name,
                                          !.Description = dec.widget.Description]
              IN Served(MapAssign(h, widget.ID, widget),
                        writeJSON(w, StatusOK, [widget |-> widget]))

\* update that stores the decoded widget, its id included.
update_TakesBodyId(h, w, body, id) ==
  IF id \notin DOMAIN h
    THEN Served(h, writeJSONError(w, StatusNotFound, NotLocated))
    ELSE LET dec == Decode(body)
             widget == dec.widget
         IN IF dec.err
              THEN Served(h, writeJSONError(w, StatusBadRequest, DecodeFailed))
              ELSE Served(MapAssign(h, widget.ID, widget),
                          writeJSON(w, StatusOK, [widget |-> widget]))

\* func (h WidgetHandler) update
update(h, w, body, id) ==
  IF id \notin DOMAIN h
    THEN Served(h, writeJSONError(w, StatusNotFound, NotLocated))
    ELSE LET dec == Decode(body)
             widget == [h[id] EXCEPT !.Name = dec.widget.Name,
                                     !.Description = dec.widget.Description]
         IN IF dec.err
              THEN Served(h, writeJSONError(w, StatusBadRequest, DecodeFailed))
              ELSE Served(MapAssign(h, widget.ID, widget),
                          writeJSON(w, StatusOK, [widget |-> widget]))

\* delete that answers with the widget and leaves it in the map.
delete_KeepsWidget(h, w, id) ==
  IF id \notin DOMAIN h
    THEN Served(h, writeJSONError(w, StatusNotFound, NotLocated))
    ELSE Served(h, writeJSON(w, StatusOK, [widget |-> h[id]]))

\* func (h WidgetHandler) delete
delete(h, w, id) ==
  IF id \notin DOMAIN h
    THEN Served(h, writeJSONError(w, StatusNotFound, NotLocated))
    ELSE Served(MapDelete(h, id), writeJSON(w, StatusOK, [widget |-> h[id]]))

\* The uuids the executable has printed once create has run: it is started
\* only after the body decoded.
Issued(issued, body, gen) ==
  IF Decode(body).err \/ gen.err THEN issued ELSE issued \cup {gen.out[1]}

\* ------------------------------------------------------------ requests

Prefix == <<"/", "widgets", "/">>

\* What follows "/widgets/" in the paths requested: nothing, a uuid, and a
\* uuid followed by the prefix once more (the id of no widget).
PathRests ==
  {EmptyString}
    \cup {Str(u) : u \in UuidSyms}
    \cup {Str(Uuid(1)) \o Prefix}

\* ServeMux hands the handler every path that starts with its pattern.
Paths == {Prefix \o rest : rest \in PathRests}

Methods == {"GET", "POST", "PUT", "DELETE", "PATCH"}

A == JString(Str("a"))

\* The JSON objects sent: a name, a description, and all three fields with
\* the id of another widget.
Objects ==
  { [k \in {"name"} |-> A],
    [k \in {"description"} |-> A],
    [k \in {"id", "name", "description"} |->
        IF k = "id" THEN JString(Str(Uuid(1))) ELSE A] }

\* The bodies sent: each object alone, an object with a number for a name,
\* an object followed by more text, and text no JSON value can be read from.
Bodies ==
  {Body(TRUE, f, FALSE) : f \in Objects}
    \cup {Body(TRUE, [k \in {"name"} |-> JNumber], FALSE)}
    \cup {Body(TRUE, [k \in {"name"} |-> A], TRUE)}
    \cup {BrokenBody}

\* What follows the prefix in the path of request r.
Remainder(r) == SubSeq(r.path, Len(Prefix) + 1, Len(r.path))

\* A request carries a body when it is a POST or a PUT.
Requests ==
  {[method |-> m, path |-> p, body |-> b] :
      m \in Methods \ {"POST", "PUT"}, p \in Paths, b \in {BrokenBody}}
    \cup {[method |-> m, path |-> p, body |-> b] :
             m \in {"POST", "PUT"}, p \in Paths, b \in Bodies}

\* ---------------------------------------------------------- the state

VARIABLES
  widgets,      \* h.widgets
  uuids,        \* the uuids uuidgen has printed
  req,          \* the request served last
  op,           \* the operation ServeHTTP ran for it
  resp,         \* the response written for it
  created,      \* the ids the creates answered, from the start
  nCreated,     \* how many creates answered 201
  fresh,        \* created widgets not updated or deleted since, by id
  deleted,      \* ids deleted and not created again since
  gs,           \* SpecConc: the goroutines serving requests
  writers,      \* SpecConc: the goroutines inside a write of the map
  crashed,      \* SpecConc: the runtime has ended the process
  raced         \* SpecConc: a read or write of the map overlapped a write

seqVars == <<req, op, resp, created, nCreated, fresh, deleted>>

concVars == <<gs, writers, crashed, raced>>

vars == <<widgets, uuids, seqVars, concVars>>

Procs == 1..NumProcs

\* A goroutine: where it is in its handler (pc), its request r, the operation
\* op it was handed to, the id of the path, its local widget, the map as it
\* found it when it began to write (snap), and its response writer w.
Goroutine(pc, r, o, id, widget, snap, w) ==
  [pc |-> pc, r |-> r, op |-> o, id |-> id, widget |-> widget, snap |-> snap, w |-> w]

NoRequest == [method |-> "", path |-> EmptyString, body |-> BrokenBody]

Idle == Goroutine("idle", NoRequest, "none", EmptyString, ZeroWidget,
                  NewWidgetHandler, NewResponse)

Init ==
  /\ widgets = NewWidgetHandler
  /\ uuids = {}
  /\ req = NoRequest
  /\ op = "none"
  /\ resp = NewResponse
  /\ created = {}
  /\ nCreated = 0
  /\ fresh = [k \in {} |-> ZeroWidget]
  /\ deleted = {}
  /\ gs = [p \in Procs |-> Idle]
  /\ writers = {}
  /\ crashed = FALSE
  /\ raced = FALSE

\* What the requests so far have answered, kept for the properties below.
Record ==
  LET ok == resp'.status \in {StatusOK, StatusCreated}
      wid == resp'.body.widget.ID
  IN /\ created' = IF op' = "create" /\ ok THEN created \cup {wid} ELSE created
     /\ nCreated' = IF op' = "create" /\ ok THEN nCreated + 1 ELSE nCreated
     /\ fresh' = CASE op' = "create" /\ ok -> MapAssign(fresh, wid, resp'.body.widget)
                   [] op' \in {"update", "delete"} /\ ok -> MapDelete(fresh, wid)
                   [] OTHER -> fresh
     /\ deleted' = CASE op' = "create" /\ ok -> deleted \ {wid}
                     [] op' = "delete" /\ ok -> deleted \cup {wid}
                     [] OTHER -> deleted

Run(name, served) ==
  /\ op' = name
  /\ widgets' = served.widgets
  /\ resp' = served.w
  /\ Record
  /\ UNCHANGED concVars

\* The id taken with a prefix that is not the one the handler is served under.
PathID_WrongPrefix(r) == Replace(r.path, <<"/", "widget", "/">>, EmptyString, 1)

\* id := strings.Replace(path, "/widgets/", "", 1)
PathID(r) == Replace(r.path, Prefix, EmptyString, 1)

\* The switch on r.Method of ServeHTTP: the operation a request is handed
\* to, "none" for the cases that break or match no case.
Route(method, id) ==
  CASE method = "GET" -> IF Len(id) > 0 THEN "get" ELSE "list"
    [] method = "POST" -> IF Len(id) > 0 THEN "none" ELSE "create"
    [] method = "PUT" -> IF Len(id) <= 0 THEN "none" ELSE "update"
    [] method = "DELETE" -> IF Len(id) <= 0 THEN "none" ELSE "delete"
    [] OTHER -> "none"

\* ServeHTTP from the switch on: the handler run to its end, or the 405 that
\* follows the switch.
Switch(r, id) ==
  \/ /\ Route(r.method, id) = "get"
     /\ req' = r
     /\ Run("get", get(widgets, NewResponse, id))
     /\ UNCHANGED uuids
  \/ /\ Route(r.method, id) = "list"
     /\ req' = r
     /\ \E order \in IterationOrders(widgets) :
           Run("list", list(widgets, NewResponse, order))
     /\ UNCHANGED uuids
  \/ /\ Route(r.method, id) = "create"
     /\ req' = r
     /\ \E gen \in Uuidgen(uuids) :
           /\ Run("create", create(widgets, NewResponse, r.body, gen))
           /\ uuids' = Issued(uuids, r.body, gen)
  \/ /\ Route(r.method, id) = "update"
     /\ req' = r
     /\ Run("update", update(widgets, NewResponse, r.body, id))
     /\ UNCHANGED uuids
  \/ /\ Route(r.method, id) = "delete"
     /\ req' = r
     /\ Run("delete", delete(widgets, NewResponse, id))
     /\ UNCHANGED uuids
  \/ /\ Route(r.method, id) = "none"
     /\ req' = r
     /\ Run("none", Served(widgets,
                           writeJSONError(NewResponse, StatusMethodNotAllowed, NotAllowed)))
     /\ UNCHANGED uuids

\* func (h WidgetHandler) ServeHTTP
ServeHTTP(r) == Switch(r, PathID(r))

Next == \E r \in Requests : ServeHTTP(r)

Spec == Init /\ [][Next]_vars

\* ------------------------------------------------ concurrent requests
\* net/http runs ServeHTTP in a goroutine of its own for every connection,
\* and the handlers share the map without a lock.  A goroutine takes a step
\* at each statement that reads or writes the map or runs uuidgen; what it
\* does by itself (the dispatch, decoding the body, writing the response) is
\* part of the step before or after.
\*
\* A write of the map is not one step: the runtime enters the write (it sets
\* the map's writing flag and looks the table up) and later leaves it (the
\* entry is stored or removed, the flag cleared).  Go leaves the outcome of a
\* write or a read that overlaps a write undefined; the runtime ends the
\* process when it notices the flag ("concurrent map writes", "concurrent
\* map read and map write"), and when it does not, the write lands on the
\* table as it is now or on the table as the writer found it.

\* The requests sent concurrently: creates, and updates and deletes of every
\* uuid and of the collection path.
ConcRequests ==
  {r \in Requests :
      /\ r.method \in {"POST", "PUT", "DELETE"}
      /\ Remainder(r) \in {EmptyString} \cup {Str(u) : u \in UuidSyms}
      /\ r.body \in {BrokenBody, Body(TRUE, [k \in {"name"} |-> A], FALSE)}
      /\ r.method = "POST" => Remainder(r) = EmptyString}

Answer(g, w) == [g EXCEPT !.pc = "done", !.w = w]

\* The runtime found the map's writing flag set.
Fatal ==
  /\ crashed' = TRUE
  /\ raced' = TRUE
  /\ UNCHANGED <<widgets, uuids, gs, writers, seqVars>>

\* ServeHTTP up to the first statement that leaves the goroutine: the
\* dispatch, and for create the decoding of the body.
Accept(p) ==
  /\ ~crashed
  /\ gs[p].pc = "idle"
  /\ \E r \in ConcRequests :
        LET id == PathID(r)
            o == Route(r.method, id)
            g == Goroutine("idle", r, o, id, ZeroWidget, NewWidgetHandler, NewResponse)
            dec == Decode(r.body)
        IN gs' = [gs EXCEPT ![p] =
             CASE o = "create" /\ dec.err ->
                    Answer(g, writeJSONError(g.w, StatusBadRequest, DecodeFailed))
               [] o = "create" /\ ~dec.err ->
                    [g EXCEPT !.pc = "uuidgen", !.widget = dec.widget]
               [] o = "update" -> [g EXCEPT !.pc = "update"]
               [] o = "delete" -> [g EXCEPT !.pc = "delete"]
               [] OTHER ->
                    Answer(g, writeJSONError(g.w, StatusMethodNotAllowed, NotAllowed))]
  /\ UNCHANGED <<widgets, uuids, writers, crashed, raced, seqVars>>

\* create: uuid, err := exec.Command("uuidgen").Output(), and the id set.
CreateUuidgen(p) ==
  /\ ~crashed
  /\ gs[p].pc = "uuidgen"
  /\ \E gen \in Uuidgen(uuids) :
        IF gen.err
          THEN /\ gs' = [gs EXCEPT ![p] =
                    Answer(@, writeJSONError(@.w, StatusInternalServerError, ExecFailed))]
               /\ UNCHANGED uuids
          ELSE /\ gs' = [gs EXCEPT ![p] =
                    [@ EXCEPT !.pc = "assign", !.widget.ID = TrimSpace(gen.out)]]
               /\ uuids' = uuids \cup {gen.out[1]}
  /\ UNCHANGED <<widgets, writers, crashed, raced, seqVars>>

\* update: widget, ok := h.widgets[id], then the body decoded and the name
\* and description set.
UpdateLookup(p) ==
  /\ ~crashed
  /\ gs[p].pc = "update"
  /\ \/ writers # {} /\ Fatal
     \/ /\ LET g == gs[p]
               dec == Decode(g.r.body)
           IN gs' = [gs EXCEPT ![p] =
                CASE g.id \notin DOMAIN widgets ->
                       Answer(g, writeJSONError(g.w, StatusNotFound, NotLocated))
                  [] g.id \in DOMAIN widgets /\ dec.err ->
                       Answer(g, writeJSONError(g.w, StatusBadRequest, DecodeFailed))
                  [] OTHER ->
                       [g EXCEPT !.pc = "assign",
                                 !.widget = [widgets[g.id] EXCEPT
                                               !.Name = dec.widget.Name,
                                               !.Description = dec.widget.Description]]]
        /\ raced' = (raced \/ writers # {})
        /\ UNCHANGED <<widgets, uuids, writers, crashed, seqVars>>

\* delete: widget, ok := h.widgets[id]
DeleteLookup(p) ==
  /\ ~crashed
  /\ gs[p].pc = "delete"
  /\ \/ writers # {} /\ Fatal
     \/ /\ LET g == gs[p]
           IN gs' = [gs EXCEPT ![p] =
                IF g.id \notin DOMAIN widgets
                  THEN Answer(g, writeJSONError(g.w, StatusNotFound, NotLocated))
                  ELSE [g EXCEPT !.pc = "remove", !.widget = widgets[g.id]]]
        /\ raced' = (raced \/ writers # {})
        /\ UNCHANGED <<widgets, uuids, writers, crashed, seqVars>>

\* h.widgets[widget.ID] = widget and delete(h.widgets, id): the write entered.
WriteBegin(p) ==
  /\ ~crashed
  /\ gs[p].pc \in {"assign", "remove"}
  /\ \/ writers # {} /\ Fatal
     \/ /\ gs' = [gs EXCEPT ![p] =
                [@ EXCEPT !.pc = IF @ = "assign" THEN "assigning" ELSE "removing",
                          !.snap = widgets]]
        /\ writers' = writers \cup {p}
        /\ raced' = (raced \/ writers # {})
        /\ UNCHANGED <<widgets, uuids, crashed, seqVars>>

\* The write left, and the response written: 201 by create, 200 by update
\* and delete.
WriteEnd(p) ==
  /\ ~crashed
  /\ gs[p].pc \in {"assigning", "removing"}
  /\ \E table \in {widgets, gs[p].snap} :
        LET g == gs[p]
        IN /\ widgets' = IF g.pc = "assigning"
                           THEN MapAssign(table, g.widget.ID, g.widget)
                           ELSE MapDelete(table, g.id)
           /\ gs' = [gs EXCEPT ![p] =
                Answer(g, writeJSON(g.w,
                                    IF g.op = "create" THEN StatusCreated ELSE StatusOK,
                                    [widget |-> g.widget]))]
  /\ writers' = writers \ {p}
  /\ UNCHANGED <<uuids, crashed, raced, seqVars>>

NextConc ==
  \E p \in Procs :
    \/ Accept(p)
    \/ CreateUuidgen(p)
    \/ UpdateLookup(p)
    \/ DeleteLookup(p)
    \/ WriteBegin(p)
    \/ WriteEnd(p)

SpecConc == Init /\ [][NextConc]_vars

\* ------------------------------------------ properties of the requests
\* The properties speak of one request: req', op' and resp' are the request
\* served by a step, what ran for it and what it answered; widgets is the
\* store before it and widgets' the store after it.

\* The string a JSON object gives for key, empty when it gives none.
Given(b, key) == IF key \in DOMAIN b.fields THEN b.fields[key][2] ELSE EmptyString

\* Map m without key k and otherwise as map n.
Without(m, n, k) ==
  /\ DOMAIN m = DOMAIN n \ {k}
  /\ \A q \in DOMAIN m : m[q] = n[q]

\* C1: with id the path after "/widgets/": GET runs list when id is empty
\* and get when it is not, POST with an empty id runs create, PUT and DELETE
\* with an id run update and delete, and every other request is answered 405,
\* runs no operation and leaves the store as it was.
C1_Dispatch ==
  [][LET id == Remainder(req')
         m == req'.method
     IN /\ (m = "GET" /\ id = EmptyString) => op' = "list"
        /\ (m = "GET" /\ id # EmptyString) => op' = "get"
        /\ (m = "POST" /\ id = EmptyString) => op' = "create"
        /\ (m = "PUT" /\ id # EmptyString) => op' = "update"
        /\ (m = "DELETE" /\ id # EmptyString) => op' = "delete"
        /\ ( \/ m = "POST" /\ id # EmptyString
             \/ m = "PUT" /\ id = EmptyString
             \/ m = "DELETE" /\ id = EmptyString
             \/ m \notin {"GET", "POST", "PUT", "DELETE"} )
           => /\ op' = "none"
              /\ resp'.status = 405
              /\ widgets' = widgets]_vars

\* A PUT on the collection path itself was answered 405 on a store that
\* holds a widget.
C1_Witness ==
  /\ req.method = "PUT" /\ Remainder(req) = EmptyString
  /\ op = "none" /\ resp.status = 405
  /\ DOMAIN widgets # {}

\* C2 as stated: every create with a well-formed body answers 201 with the
\* generated id and the name and description of the body, and a later get of
\* a created widget that was not updated or deleted since answers it as
\* created.
C2_EveryCreateAnswers201 ==
  [][/\ (op' = "create" /\ WellFormed(req'.body))
          => /\ resp'.status = 201
             /\ resp'.body.widget.ID \in {Str(u) : u \in uuids' \ uuids}
             /\ resp'.body.widget.Name = Given(req'.body, "name")
             /\ resp'.body.widget.Description = Given(req'.body, "description")
     /\ (op' = "get" /\ Remainder(req') \in DOMAIN fresh)
          => /\ resp'.status = 200
             /\ resp'.body.widget = fresh[Remainder(req')]]_vars

\* C2, amended: a create with a well-formed body for which uuidgen succeeds
\* answers 201 with the generated id, whatever id the body gave, and the name
\* and description of the body; when uuidgen fails it answers 500 and the
\* store stays as it was.  A later get of a created widget that was not
\* updated or deleted since answers 200 with the widget as created.
C2_CreateThenGet ==
  [][/\ (op' = "create" /\ WellFormed(req'.body) /\ uuids' # uuids)
          => /\ resp'.status = 201
             /\ resp'.body.widget.ID \in {Str(u) : u \in uuids' \ uuids}
             /\ resp'.body.widget.Name = Given(req'.body, "name")
             /\ resp'.body.widget.Description = Given(req'.body, "description")
     /\ (op' = "create" /\ WellFormed(req'.body) /\ uuids' = uuids)
          => /\ resp'.status = 500
             /\ widgets' = widgets
     /\ (op' = "get" /\ Remainder(req') \in DOMAIN fresh)
          => /\ resp'.status = 200
             /\ resp'.body.widget = fresh[Remainder(req')]]_vars

\* A get answered a widget that a create made from a body carrying the id of
\* another widget, while both are in the store.
C2_Witness ==
  /\ op = "get" /\ resp.status = 200
  /\ Remainder(req) \in DOMAIN fresh
  /\ resp.body.widget.ID = Str(Uuid(2))
  /\ resp.body.widget.Name = Str("a")
  /\ Str(Uuid(1)) \in DOMAIN widgets

\* C3: as long as nothing was deleted, list answers 200 with as many widgets
\* as creates answered 201, and their ids are the ids those creates answered;
\* on the empty store it answers 200 with no widget and count 0.
C3_ListAfterCreates ==
  [][op' = "list"
       => /\ resp'.status = 200
          /\ deleted = {}
               => /\ resp'.body.count = nCreated
                  /\ Len(resp'.body.widgets) = nCreated
                  /\ {resp'.body.widgets[i].ID : i \in 1..Len(resp'.body.widgets)}
                       = created
          /\ DOMAIN widgets = {}
               => /\ resp'.body.count = 0
                  /\ resp'.body.widgets = <<>>]_vars

\* A list after two creates and no delete.
C3_Witness ==
  /\ op = "list" /\ resp.status = 200
  /\ nCreated = 2 /\ deleted = {}
  /\ resp.body.count = 2

\* C4: an update of an id that is no key of the store answers 404 and leaves
\* the store as it was, whatever the body.
C4_UpdateOfAbsentId ==
  [][(op' = "update" /\ Remainder(req') \notin DOMAIN widgets)
       => /\ resp'.status = 404
          /\ widgets' = widgets]_vars

\* An update with a body no JSON can be read from, of an id the store does
\* not hold, was answered 404 while the store holds another widget.
C4_Witness ==
  /\ op = "update" /\ resp.status = 404
  /\ ~req.body.valid
  /\ Remainder(req) \notin DOMAIN widgets
  /\ DOMAIN widgets # {}

\* C5: an update of a stored id with a well-formed body answers 200 with the
\* widget, which keeps the path id as its id and its key and takes its name
\* and description from the body; the store keeps its keys and every other
\* widget.
C5_UpdateOverwritesNameAndDescription ==
  [][LET id == Remainder(req')
     IN (op' = "update" /\ id \in DOMAIN widgets /\ WellFormed(req'.body))
          => /\ resp'.status = 200
             /\ DOMAIN widgets' = DOMAIN widgets
             /\ widgets'[id] = Widget(id, Given(req'.body, "name"),
                                      Given(req'.body, "description"))
             /\ resp'.body.widget = widgets'[id]
             /\ \A k \in DOMAIN widgets \ {id} : widgets'[k] = widgets[k]]_vars

\* An update whose body carries the id of another stored widget was
\* answered 200.
C5_Witness ==
  /\ op = "update" /\ resp.status = 200
  /\ "id" \in DOMAIN req.body.fields
  /\ req.body.fields["id"][2] # Remainder(req)
  /\ req.body.fields["id"][2] \in DOMAIN widgets
  /\ Remainder(req) \in DOMAIN widgets

\* C6: a delete of a stored id answers 200 with the widget and takes it, and
\* nothing else, out of the store; from then on, until a create answers that
\* id again, a get or a delete of it answers 404 and leaves the store as it
\* was.
C6_DeleteRemoves ==
  [][LET id == Remainder(req')
     IN /\ (op' = "delete" /\ id \in DOMAIN widgets)
             => /\ resp'.status = 200
                /\ resp'.body.widget = widgets[id]
                /\ Without(widgets', widgets, id)
        /\ (op' \in {"get", "delete"} /\ id \in deleted)
             => /\ resp'.status = 404
                /\ widgets' = widgets]_vars

\* A second delete of a deleted id was answered 404 while the store holds
\* another widget.
C6_Witness ==
  /\ op = "delete" /\ resp.status = 404
  /\ Remainder(req) \in deleted
  /\ DOMAIN widgets # {}

\* C7: a create, and an update of a stored id, whose body is not a JSON text
\* answer 400 and leave the store as it was, and no id is generated.
C7_MalformedBodyRejected ==
  [][( \/ op' = "create"
       \/ op' = "update" /\ Remainder(req') \in DOMAIN widgets )
     /\ ~IsJSON(req'.body)
       => /\ resp'.status = 400
          /\ widgets' = widgets
          /\ uuids' = uuids]_vars

\* C10: the store starts empty; every stored widget has a non-empty id, is
\* stored under it, and shares it with no other; only a create answered 201
\* adds a key and only a delete answered 200 removes one.
C10_StoredIds ==
  /\ widgets = NewWidgetHandler
  /\ [](\A k \in DOMAIN widgets :
           /\ k # EmptyString
           /\ widgets[k].ID = k
           /\ \A j \in DOMAIN widgets : j # k => widgets[j].ID # widgets[k].ID)
  /\ [][/\ DOMAIN widgets' \ DOMAIN widgets # {}
             => op' = "create" /\ resp'.status = 201
        /\ DOMAIN widgets \ DOMAIN widgets' # {}
             => op' = "delete" /\ resp'.status = 200]_vars

\* Two widgets are stored, one of them just updated with a body that carries
\* the id of the other.
C10_Witness ==
  /\ Cardinality(DOMAIN widgets) = 2
  /\ op = "update" /\ resp.status = 200
  /\ "id" \in DOMAIN req.body.fields
  /\ req.body.fields["id"][2] # resp.body.widget.ID

\* ----------------------------------- properties of concurrent requests

\* The goroutines that were handed a request.
Started == {p \in Procs : gs[p].pc # "idle"}

\* C8: when the only requests are creates with well-formed bodies, run
\* concurrently, and each has answered 201, the ids answered differ, the
\* store holds every widget answered, and a list counts as many widgets as
\* there were creates.
C8_ConcurrentCreatesAllStored ==
  ( /\ Started # {}
    /\ \A p \in Started :
          /\ gs[p].op = "create" /\ WellFormed(gs[p].r.body)
          /\ gs[p].pc = "done" /\ gs[p].w.status = 201 )
  => /\ \A p, q \in Started :
           p # q => gs[p].w.body.widget.ID # gs[q].w.body.widget.ID
     /\ \A p \in Started :
           /\ gs[p].w.body.widget.ID \in DOMAIN widgets
           /\ widgets[gs[p].w.body.widget.ID] = gs[p].w.body.widget
     /\ \A order \in IterationOrders(widgets) :
           list(widgets, NewResponse, order).w.body.count = Cardinality(Started)

\* C9: when an update and a delete of the same id have both completed and
\* the delete has answered 200, the store does not hold that id: in either
\* order of the two, the delete leaves the id out of the store or the update
\* finds it gone.  Stated of the runs in which no access of the map
\* overlapped a write of it.
C9_DeletedStaysDeleted ==
  \A u, d \in Procs :
    ( /\ ~raced
      /\ gs[u].op = "update" /\ gs[u].pc = "done"
      /\ gs[d].op = "delete" /\ gs[d].pc = "done"
      /\ gs[u].id = gs[d].id
      /\ gs[d].w.status = 200 )
    => gs[d].id \notin DOMAIN widgets

====
